---- MODULE Spec2Model ----
(***************************************************************************)
(* A model of cyber-blackjack-server (server.js): the matchmaking queue,   *)
(* the store of active games, the per-game turn engine, the dealer, the    *)
(* outcome computation and the per-player projection of a game.            *)
(***************************************************************************)
EXTENDS Integers, Sequences, FiniteSets, TLC

\* ------------------------------------------------------------------ bounds

\* Number of socket connections the server accepts over its lifetime.
NumSockets == 3

\* Number of distinct pseudo-random streams Math.random() may follow.
MaxSeed == 2

\* Number of games the matchmaker creates over the server's lifetime.
MaxGames == 2

\* Number of pseudo-random streams tried for the deck of a single round.
RoundSeeds == 30

\* Longest hand given to calculateHandTotal on its own.
MaxHandLen == 5

\* ------------------------------------------------------- sequence helpers

Last(s) == s[Len(s)]

Front(s) == SubSeq(s, 1, Len(s) - 1)

Range(s) == {s[i] : i \in 1..Len(s)}

\* Array.prototype.indexOf, 0-based, -1 when absent.
IndexOf(s, x) ==
    IF \E i \in 1..Len(s) : s[i] = x
    THEN (CHOOSE i \in 1..Len(s) : s[i] = x /\ \A k \in 1..(i - 1) : s[k] # x) - 1
    ELSE -1

\* Array.prototype.pop in the place of shift: the newest entry is taken.
ShiftNewest(s) == [value |-> s[Len(s)], rest |-> SubSeq(s, 1, Len(s) - 1)]

\* Array.prototype.shift on a non-empty array: the oldest entry and the rest.
Shift(s) == [value |-> s[1], rest |-> SubSeq(s, 2, Len(s))]

\* Array.prototype.splice(index, 1), index 0-based.
Splice1(s, index) == SubSeq(s, 1, index) \o SubSeq(s, index + 2, Len(s))

\* ------------------------------------------------------------------- cards

suits == <<"Hearts", "Diamonds", "Clubs", "Spades">>

ranks == <<"2", "3", "4", "5", "6", "7", "8", "9", "10", "J", "Q", "K", "A">>

\* What Array.prototype.pop returns on an empty array.
undefined == [rank |-> "undefined", suit |-> "undefined"]

\* What the projection shows in place of the dealer's second card.
placeholder == [rank |-> "?", suit |-> "?"]

\* createDeck without its loop over the suits: the thirteen cards of one suit.
createDeckOneSuit ==
    [k \in 1..Len(ranks) |-> [rank |-> ranks[k], suit |-> suits[1]]]

createDeck ==
    [k \in 1..(Len(suits) * Len(ranks)) |->
        [rank |-> ranks[((k - 1) % Len(ranks)) + 1],
         suit |-> suits[((k - 1) \div Len(ranks)) + 1]]]

\* One step of the pseudo-random stream behind Math.random().
NextRandom(x) == (x * 75 + 74) % 65537

\* Math.floor(Math.random() * n) for the stream value x.
RandomBelow(x, n) == (x * n) \div 65537

\* The Fisher-Yates loop of shuffleDeck from index i (0-based) down to 1.
RECURSIVE ShuffleFrom(_, _, _)
ShuffleFrom(deck, i, x) ==
    IF i <= 0 THEN deck
    ELSE LET j == RandomBelow(x, i + 1)
             swapped == [deck EXCEPT ![i + 1] = deck[j + 1], ![j + 1] = deck[i + 1]]
         IN ShuffleFrom(swapped, i - 1, NextRandom(x))

shuffleDeck(deck, seed) == ShuffleFrom(deck, Len(deck) - 1, NextRandom(NextRandom(seed * 7919)))

parseInt(rank) ==
    CASE rank = "2" -> 2 [] rank = "3" -> 3 [] rank = "4" -> 4 [] rank = "5" -> 5
      [] rank = "6" -> 6 [] rank = "7" -> 7 [] rank = "8" -> 8 [] rank = "9" -> 9
      [] rank = "10" -> 10

getCardValue(card, currentTotal) ==
    IF card.rank = "A" THEN (IF currentTotal + 11 > 21 THEN 1 ELSE 11)
    ELSE IF card.rank \in {"K", "Q", "J"} THEN 10
    ELSE parseInt(card.rank)

\* The for loop of calculateHandTotal: <<total, numAces>> after the first n cards.
RECURSIVE FoldHand(_, _)
FoldHand(hand, n) ==
    IF n = 0 THEN <<0, 0>>
    ELSE LET prev == FoldHand(hand, n - 1)
         IN <<prev[1] + getCardValue(hand[n], prev[1]),
              prev[2] + (IF hand[n].rank = "A" THEN 1 ELSE 0)>>

\* calculateHandTotal without its while loop: no ace is ever taken down to 1.
AdjustAcesNever(total, numAces) == total

\* The while loop of calculateHandTotal.
RECURSIVE AdjustAces(_, _)
AdjustAces(total, numAces) ==
    IF total > 21 /\ numAces > 0 THEN AdjustAces(total - 10, numAces - 1) ELSE total

calculateHandTotal(hand) ==
    LET f == FoldHand(hand, Len(hand)) IN AdjustAces(f[1], f[2])

\* -------------------------------------------------------------------- game

\* Array.prototype.pop on the deck: the card returned and the deck left.
Pop(deck) ==
    IF deck = <<>> THEN [card |-> undefined, deck |-> deck]
    ELSE [card |-> Last(deck), deck |-> Front(deck)]

\* Reading card.rank of an undefined card raises a TypeError.
HandThrows(hand) == \E i \in 1..Len(hand) : hand[i] = undefined

newPlayer(hand) ==
    [hand |-> hand, score |-> calculateHandTotal(hand),
     isStanding |-> FALSE, isBusted |-> FALSE, chips |-> 1000]

\* The game object of initializeGame. game[player1Id] and game[player2Id] are
\* computed keys of one object literal: with player1Id = player2Id the later
\* key replaces the earlier one.
initializeGame(player1Id, player2Id, seed) ==
    LET deck0 == shuffleDeck(createDeck, seed)
        n == Len(deck0)
        player1Hand == <<deck0[n], deck0[n - 3]>>
        player2Hand == <<deck0[n - 1], deck0[n - 4]>>
        dealerHand == <<deck0[n - 2], deck0[n - 5]>>
    IN [deck |-> SubSeq(deck0, 1, n - 6),
        players |-> <<player1Id, player2Id>>,
        byId |-> [id \in {player1Id, player2Id} |->
                     IF id = player2Id THEN newPlayer(player2Hand)
                     ELSE newPlayer(player1Hand)],
        dealer |-> [hand |-> dealerHand, score |-> calculateHandTotal(dealerHand),
                    isBusted |-> FALSE],
        currentTurn |-> player1Id,
        turnOrder |-> <<player1Id, player2Id, "dealer">>,
        turnIndex |-> 0,
        message |-> "Game started! Player 1's turn.",
        gameOver |-> FALSE,
        gameOverMessage |-> "",
        gameOverType |-> ""]

\* The dealer's loop drawing on 17 as well.
RECURSIVE DealerLoopHitsOn17(_)
DealerLoopHitsOn17(game) ==
    IF game.dealer.score <= 17
    THEN LET p == Pop(game.deck)
             cards == Append(game.dealer.hand, p.card)
         IN IF HandThrows(cards)
            THEN [game |-> [game EXCEPT !.deck = p.deck, !.dealer.hand = cards],
                  threw |-> TRUE]
            ELSE DealerLoopHitsOn17([game EXCEPT
                    !.deck = p.deck,
                    !.dealer.hand = cards,
                    !.dealer.score = calculateHandTotal(cards),
                    !.message = game.message \o " Dealer hits and gets "
                                \o p.card.rank \o " of " \o p.card.suit \o "."])
    ELSE [game |-> game, threw |-> FALSE]

\* The while loop of handleDealerTurn; threw is set when the deck runs out and
\* calculateHandTotal meets the undefined card.
RECURSIVE DealerLoop(_)
DealerLoop(game) ==
    IF game.dealer.score < 17
    THEN LET p == Pop(game.deck)
             hand == Append(game.dealer.hand, p.card)
         IN IF HandThrows(hand)
            THEN [game |-> [game EXCEPT !.deck = p.deck, !.dealer.hand = hand],
                  threw |-> TRUE]
            ELSE DealerLoop([game EXCEPT
                    !.deck = p.deck,
                    !.dealer.hand = hand,
                    !.dealer.score = calculateHandTotal(hand),
                    !.message = game.message \o " Dealer hits and gets "
                                \o p.card.rank \o " of " \o p.card.suit \o "."])
    ELSE [game |-> game, threw |-> FALSE]

handleDealerTurn(game) ==
    LET start == [game EXCEPT !.message = "Dealer's turn...",
                              !.dealer.score = calculateHandTotal(game.dealer.hand)]
        r == DealerLoop(start)
        g == r.game
    IN IF r.threw THEN r
       ELSE IF g.dealer.score > 21
       THEN [game |-> [g EXCEPT !.dealer.isBusted = TRUE,
                                !.message = g.message \o " Dealer busts!"],
             threw |-> FALSE]
       ELSE [game |-> [g EXCEPT !.message = g.message \o " Dealer stands."],
             threw |-> FALSE]

\* PlayerOutcome with a busted dealer looked at before a busted player.
PlayerOutcomeDealerFirst(player, dealer) ==
    IF dealer.isBusted \/ (~player.isBusted /\ player.score > dealer.score) THEN "wins"
    ELSE IF player.isBusted THEN "busted"
    ELSE IF player.score < dealer.score THEN "loses"
    ELSE "pushes"

\* The branch of determineGameOutcome taken for one player.
PlayerOutcome(player, dealer) ==
    IF player.isBusted THEN "busted"
    ELSE IF dealer.isBusted \/ player.score > dealer.score THEN "wins"
    ELSE IF player.score < dealer.score THEN "loses"
    ELSE "pushes"

\* The text the branch appends; the player objects carry no id field, so
\* ${player.id} renders as "undefined".
OutcomeText(outcome) ==
    "undefined " \o
    (CASE outcome = "busted" -> "busted. "
       [] outcome = "wins" -> "wins! "
       [] outcome = "loses" -> "loses. "
       [] outcome = "pushes" -> "pushes. ")

\* The value of type with every branch assigning it: a busted or pushing
\* player puts it back to info.
OutcomeTypeReset(outcome, type) ==
    CASE outcome = "wins" -> "win"
      [] outcome = "loses" -> "lose"
      [] OTHER -> "info"

\* The value of type after the branch taken for one player.
OutcomeType(outcome, type) ==
    CASE outcome = "wins" -> "win"
      [] outcome = "loses" -> "lose"
      [] OTHER -> type

determineGameOutcome(game) ==
    LET player1 == game.byId[game.players[1]]
        player2 == game.byId[game.players[2]]
        o1 == PlayerOutcome(player1, game.dealer)
        o2 == PlayerOutcome(player2, game.dealer)
    IN [game EXCEPT
          !.gameOver = TRUE,
          !.gameOverMessage = "Round over! " \o OutcomeText(o1) \o OutcomeText(o2),
          !.gameOverType = OutcomeType(o2, OutcomeType(o1, "info"))]

\* The skipping loop of advanceTurn, from a 0-based index into turnOrder.
RECURSIVE SkipFrom(_, _)
SkipFrom(game, nextTurnIndex) ==
    LET nextPlayerId == game.turnOrder[nextTurnIndex + 1]
    IN IF nextPlayerId # "dealer"
          /\ (game.byId[nextPlayerId].isBusted \/ game.byId[nextPlayerId].isStanding)
       THEN SkipFrom(game, (nextTurnIndex + 1) % Len(game.turnOrder))
       ELSE nextTurnIndex

advanceTurn(game) ==
    LET nextTurnIndex == SkipFrom(game, (game.turnIndex + 1) % Len(game.turnOrder))
        moved == [game EXCEPT !.turnIndex = nextTurnIndex,
                              !.currentTurn = game.turnOrder[nextTurnIndex + 1]]
    IN IF moved.currentTurn = "dealer"
       THEN LET r == handleDealerTurn(moved)
            IN IF r.threw THEN r
               ELSE [game |-> determineGameOutcome(r.game), threw |-> FALSE]
       ELSE [game |-> [moved EXCEPT !.message = "It's " \o moved.currentTurn \o "'s turn."],
             threw |-> FALSE]

\* The guard shared by handleHit and handleStand.
Rejected(game, playerId) ==
    \/ game.currentTurn # playerId
    \/ game.byId[playerId].isStanding
    \/ game.byId[playerId].isBusted

\* handleHit with the turn advanced after every accepted hit.
handleHitAlwaysAdvancing(game, playerId) ==
    IF Rejected(game, playerId) THEN [game |-> game, threw |-> FALSE]
    ELSE LET p == Pop(game.deck)
             cards == Append(game.byId[playerId].hand, p.card)
             score == calculateHandTotal(cards)
         IN advanceTurn([game EXCEPT !.deck = p.deck,
                                     !.byId[playerId].hand = cards,
                                     !.byId[playerId].score = score,
                                     !.byId[playerId].isBusted = score > 21])

handleHit(game, playerId) ==
    IF Rejected(game, playerId) THEN [game |-> game, threw |-> FALSE]
    ELSE LET p == Pop(game.deck)
             hand == Append(game.byId[playerId].hand, p.card)
         IN IF HandThrows(hand)
            THEN [game |-> [game EXCEPT !.deck = p.deck, !.byId[playerId].hand = hand],
                  threw |-> TRUE]
            ELSE LET score == calculateHandTotal(hand)
                     drawn == [game EXCEPT !.deck = p.deck,
                                           !.byId[playerId].hand = hand,
                                           !.byId[playerId].score = score]
                 IN IF score > 21
                    THEN advanceTurn([drawn EXCEPT
                             !.byId[playerId].isBusted = TRUE,
                             !.message = playerId \o " busted!"])
                    ELSE [game |-> [drawn EXCEPT
                             !.message = playerId \o " hits and gets " \o p.card.rank
                                         \o " of " \o p.card.suit \o "."],
                          threw |-> FALSE]

handleStand(game, playerId) ==
    IF Rejected(game, playerId) THEN [game |-> game, threw |-> FALSE]
    ELSE advanceTurn([game EXCEPT !.byId[playerId].isStanding = TRUE,
                                  !.message = playerId \o " stands."])

\* ------------------------------------------------------------------ server

VARIABLES
    opened,            \* number of connections accepted so far
    sockets,           \* io.sockets.sockets: id of each connected socket -> socket.rooms
    roomsAsObject,     \* whether socket.rooms is a plain object (own keys) or a Set
    matchmakingQueue,  \* the matchmakingQueue array
    activeGames,       \* the activeGames object, entries in insertion order
    sent,              \* the events delivered by the handler that ran last
    dealt,             \* number of games created so far
    crashed,           \* an uncaught exception has ended the process
    hand,              \* the argument of a call of calculateHandTotal on its own
    total              \* what that call returned, -1 before it returns

server == <<opened, sockets, roomsAsObject, matchmakingQueue, activeGames, sent, dealt, crashed>>

vars == <<server, hand, total>>

\* The id of the n-th socket to connect; an id is never used again.
SocketId(n) == "s" \o ToString(n)

\* String.prototype.startsWith.
startsWith(str, prefix) ==
    Len(str) >= Len(prefix) /\ SubSeq(str, 1, Len(prefix)) = prefix

\* The template literal `game-${player1Id}-${player2Id}`.
gameRoomId(player1Id, player2Id) == "game-" \o player1Id \o "-" \o player2Id

\* Object.keys(socket.rooms): the room names when rooms is a plain object, no
\* key at all when it is a Set.
ObjectKeys(rooms) == IF roomsAsObject THEN rooms ELSE <<>>

\* Array.prototype.find with room => room.startsWith('game-'); <<>> for undefined.
FindGameRoom(keys) ==
    LET hits == SelectSeq(keys, LAMBDA room : startsWith(room, "game-"))
    IN IF hits = <<>> THEN <<>> ELSE <<hits[1]>>

\* socket.join(room): rooms keeps a name once, in the order of joining.
Join(rooms, room) == IF room \in Range(rooms) THEN rooms ELSE Append(rooms, room)

\* activeGames[roomId] !== undefined
HasGame(store, roomId) == \E i \in 1..Len(store) : store[i].roomId = roomId

\* activeGames[roomId]
GetGame(store, roomId) ==
    store[CHOOSE i \in 1..Len(store) : store[i].roomId = roomId].game

\* activeGames[roomId] = game: an existing key keeps its place.
PutGame(store, roomId, game) ==
    IF HasGame(store, roomId)
    THEN [i \in 1..Len(store) |->
             IF store[i].roomId = roomId THEN [roomId |-> roomId, game |-> game]
             ELSE store[i]]
    ELSE Append(store, [roomId |-> roomId, game |-> game])

\* delete activeGames[roomId]
DeleteGame(store, roomId) == SelectSeq(store, LAMBDA e : e.roomId # roomId)

\* game.players.find(id => id !== playerId); <<>> for undefined.
FindOther(game, playerId) ==
    LET others == SelectSeq(game.players, LAMBDA id : id # playerId)
    IN IF others = <<>> THEN <<>> ELSE <<others[1]>>

\* getGameStateForPlayer reads opponentPlayer.hand of an undefined opponent.
ViewThrows(game, playerId) == FindOther(game, playerId) = <<>>

\* getGameStateForPlayer with the dealer's score taken from the whole hand.
getGameStateForPlayerFullScore(game, playerId) ==
    LET currentPlayer == game.byId[playerId]
        opponentId == FindOther(game, playerId)[1]
        opponentPlayer == game.byId[opponentId]
    IN [playerState |-> [id |-> playerId,
                         hand |-> currentPlayer.hand,
                         score |-> currentPlayer.score,
                         isStanding |-> currentPlayer.isStanding,
                         isBusted |-> currentPlayer.isBusted,
                         chips |-> currentPlayer.chips],
        opponentState |-> [id |-> opponentId,
                           hand |-> opponentPlayer.hand,
                           score |-> opponentPlayer.score,
                           hideFirstCard |-> FALSE,
                           isStanding |-> opponentPlayer.isStanding,
                           isBusted |-> opponentPlayer.isBusted],
        dealerState |-> [hand |-> <<game.dealer.hand[1], placeholder>>,
                         score |-> game.dealer.score,
                         hideSecondCard |-> TRUE],
        currentTurn |-> game.currentTurn,
        message |-> game.message,
        gameOver |-> game.gameOver,
        gameOverMessage |-> game.gameOverMessage,
        gameOverType |-> game.gameOverType]

getGameStateForPlayer(game, playerId) ==
    LET currentPlayer == game.byId[playerId]
        opponentId == FindOther(game, playerId)[1]
        opponentPlayer == game.byId[opponentId]
    IN [playerState |-> [id |-> playerId,
                         hand |-> currentPlayer.hand,
                         score |-> currentPlayer.score,
                         isStanding |-> currentPlayer.isStanding,
                         isBusted |-> currentPlayer.isBusted,
                         chips |-> currentPlayer.chips],
        opponentState |-> [id |-> opponentId,
                           hand |-> opponentPlayer.hand,
                           score |-> opponentPlayer.score,
                           hideFirstCard |-> FALSE,
                           isStanding |-> opponentPlayer.isStanding,
                           isBusted |-> opponentPlayer.isBusted],
        dealerState |-> [hand |-> <<game.dealer.hand[1], placeholder>>,
                         score |-> getCardValue(game.dealer.hand[1], 0),
                         hideSecondCard |-> TRUE],
        currentTurn |-> game.currentTurn,
        message |-> game.message,
        gameOver |-> game.gameOver,
        gameOverMessage |-> game.gameOverMessage,
        gameOverType |-> game.gameOverType]

\* io.to(room).emit(event, data): one delivery to each connected socket that
\* is in the room, socks being io.sockets.sockets at that moment.
Emit(socks, room, event, data) ==
    LET ids == [n \in 1..opened |-> SocketId(n)]
        members == SelectSeq(ids, LAMBDA id : id \in DOMAIN socks /\ room \in Range(socks[id]))
    IN [i \in 1..Len(members) |-> [to |-> members[i], event |-> event, data |-> data]]

Init ==
    /\ opened = 0
    /\ sockets = <<>>
    /\ roomsAsObject \in BOOLEAN
    /\ matchmakingQueue = <<>>
    /\ activeGames = <<>>
    /\ sent = <<>>
    /\ dealt = 0
    /\ crashed = FALSE
    /\ hand = <<>>
    /\ total = -1

\* io.on('connection'): a socket with a fresh id, in the room of its own id.
connection ==
    /\ ~crashed
    /\ opened < NumSockets
    /\ opened' = opened + 1
    /\ sockets' = [id \in DOMAIN sockets \cup {SocketId(opened + 1)} |->
                      IF id \in DOMAIN sockets THEN sockets[id] ELSE <<id>>]
    /\ sent' = <<>>
    /\ UNCHANGED <<roomsAsObject, matchmakingQueue, activeGames, dealt, crashed>>
    /\ UNCHANGED <<hand, total>>

\* socket.on('requestMatch') of socket id; seed picks the shuffle.
requestMatch(id, seed) ==
    /\ ~crashed
    /\ id \in DOMAIN sockets
    /\ LET queue == Append(matchmakingQueue, id)
       IN IF Len(queue) >= 2
          THEN LET first == Shift(queue)
                   second == Shift(first.rest)
                   player1Id == first.value
                   player2Id == second.value
                   roomId == gameRoomId(player1Id, player2Id)
                   newGame == initializeGame(player1Id, player2Id, seed)
                   joined == [s \in DOMAIN sockets |->
                                 IF s \in {player1Id, player2Id}
                                 THEN Join(sockets[s], roomId) ELSE sockets[s]]
                   found == Emit(joined, player1Id, "matchFound", player2Id)
                            \o Emit(joined, player2Id, "matchFound", player1Id)
               IN /\ dealt < MaxGames
                  /\ dealt' = dealt + 1
                  /\ matchmakingQueue' = second.rest
                  /\ IF {player1Id, player2Id} \subseteq DOMAIN sockets
                     THEN /\ sockets' = joined
                          /\ activeGames' = PutGame(activeGames, roomId, newGame)
                          /\ IF ViewThrows(newGame, player1Id)
                             THEN sent' = found /\ crashed' = TRUE
                             ELSE /\ sent' = found
                                      \o Emit(joined, player1Id, "pvpGameUpdate",
                                              getGameStateForPlayer(newGame, player1Id))
                                      \o Emit(joined, player2Id, "pvpGameUpdate",
                                              getGameStateForPlayer(newGame, player2Id))
                                  /\ crashed' = FALSE
                     ELSE \* io.sockets.sockets.get(...) is undefined: .join throws
                          /\ sockets' = [s \in DOMAIN sockets |->
                                            IF s = player1Id THEN Join(sockets[s], roomId)
                                            ELSE sockets[s]]
                          /\ UNCHANGED activeGames
                          /\ sent' = <<>>
                          /\ crashed' = TRUE
          ELSE /\ matchmakingQueue' = queue
               /\ sent' = <<>>
               /\ UNCHANGED <<sockets, activeGames, dealt, crashed>>
    /\ UNCHANGED <<opened, roomsAsObject>>
    /\ UNCHANGED <<hand, total>>

\* socket.on('cancelMatchmaking') of socket id.
cancelMatchmaking(id) ==
    /\ ~crashed
    /\ id \in DOMAIN sockets
    /\ LET index == IndexOf(matchmakingQueue, id)
       IN matchmakingQueue' = IF index > -1 THEN Splice1(matchmakingQueue, index)
                              ELSE matchmakingQueue
    /\ sent' = <<>>
    /\ UNCHANGED <<opened, sockets, roomsAsObject, activeGames, dealt, crashed>>
    /\ UNCHANGED <<hand, total>>

\* The entries of the for-in loop of the disconnect handler that hold id.
GamesOf(store, id) == SelectSeq(store, LAMBDA e : id \in Range(e.game.players))

\* socket.on('disconnect') of socket id: the socket has left io.sockets.sockets.
disconnect(id) ==
    /\ ~crashed
    /\ id \in DOMAIN sockets
    /\ LET index == IndexOf(matchmakingQueue, id)
           left == [s \in DOMAIN sockets \ {id} |-> sockets[s]]
           mine == GamesOf(activeGames, id)
       IN /\ matchmakingQueue' = IF index > -1 THEN Splice1(matchmakingQueue, index)
                                 ELSE matchmakingQueue
          /\ sockets' = left
          /\ IF mine = <<>>
             THEN sent' = <<>> /\ UNCHANGED activeGames
             ELSE LET remainingPlayerId == FindOther(mine[1].game, id)
                  IN /\ sent' = IF remainingPlayerId = <<>> THEN <<>>
                                ELSE Emit(left, remainingPlayerId[1], "pvpGameOver",
                                          [message |-> "Opponent disconnected. You win!",
                                           type |-> "win"])
                     /\ activeGames' = DeleteGame(activeGames, mine[1].roomId)
    /\ UNCHANGED <<opened, roomsAsObject, dealt, crashed>>
    /\ UNCHANGED <<hand, total>>

\* The switch of the playerAction handler with an unknown action falling
\* through to the stand case.
switchActionDefaultStand(game, playerId, action) ==
    CASE action = "hit" -> handleHit(game, playerId)
      [] OTHER -> handleStand(game, playerId)

\* The switch on data.action of the playerAction handler.
switchAction(game, playerId, action) ==
    CASE action = "hit" -> handleHit(game, playerId)
      [] action = "stand" -> handleStand(game, playerId)
      [] OTHER -> [game |-> game, threw |-> FALSE]

\* socket.on('playerAction') of socket id with data.action = action.
playerAction(id, action) ==
    /\ ~crashed
    /\ id \in DOMAIN sockets
    /\ LET found == FindGameRoom(ObjectKeys(sockets[id]))
       IN IF found = <<>> \/ ~HasGame(activeGames, found[1])
          THEN sent' = <<>> /\ UNCHANGED <<activeGames, crashed>>
          ELSE LET roomId == found[1]
                   game == GetGame(activeGames, roomId)
               IN IF game.currentTurn # id
                  THEN /\ sent' = <<[to |-> id, event |-> "pvpGameUpdate",
                                     data |-> [message |-> "It's not your turn!",
                                               messageType |-> "error"]]>>
                       /\ UNCHANGED <<activeGames, crashed>>
                  ELSE LET r == switchAction(game, id, action)
                           after == r.game
                       IN /\ activeGames' = PutGame(activeGames, roomId, after)
                          /\ IF r.threw \/ ViewThrows(after, after.players[1])
                             THEN sent' = <<>> /\ crashed' = TRUE
                             ELSE /\ crashed' = FALSE
                                  /\ sent' =
                                       Emit(sockets, after.players[1], "pvpGameUpdate",
                                            getGameStateForPlayer(after, after.players[1]))
                                       \o Emit(sockets, after.players[2], "pvpGameUpdate",
                                               getGameStateForPlayer(after, after.players[2]))
                                       \o (IF after.gameOver
                                           THEN Emit(sockets, roomId, "pvpGameOver",
                                                  [message |-> after.gameOverMessage,
                                                   type |-> after.gameOverType,
                                                   finalGame |-> getGameStateForPlayer(
                                                                   after, after.players[1])])
                                           ELSE <<>>)
    /\ UNCHANGED <<opened, sockets, roomsAsObject, matchmakingQueue, dealt>>
    /\ UNCHANGED <<hand, total>>

Actions == {"hit", "stand", "doubleDown"}

Next ==
    \/ connection
    \/ \E id \in DOMAIN sockets, seed \in 1..MaxSeed : requestMatch(id, seed)
    \/ \E id \in DOMAIN sockets : cancelMatchmaking(id)
    \/ \E id \in DOMAIN sockets : disconnect(id)
    \/ \E id \in DOMAIN sockets, action \in Actions : playerAction(id, action)

Spec == Init /\ [][Next]_vars

\* ------------------------------------------------- a single round of play

\* The server right after sockets s1 and s2 connected and were matched, as
\* requestMatch leaves it, with the deck shuffled along stream seed and
\* socket.rooms of the kind asObject says. waiting is empty, or holds the one
\* socket that connected and asked for a match after the two were paired.
Matched(seed, asObject, waiting) ==
    LET player1Id == SocketId(1)
        player2Id == SocketId(2)
        roomId == gameRoomId(player1Id, player2Id)
        newGame == initializeGame(player1Id, player2Id, seed)
    IN /\ opened = 2 + Len(waiting)
       /\ sockets = [s \in {player1Id, player2Id} \cup Range(waiting) |->
                        IF s \in Range(waiting) THEN <<s>> ELSE Join(<<s>>, roomId)]
       /\ roomsAsObject = asObject
       /\ matchmakingQueue = waiting
       /\ activeGames = PutGame(<<>>, roomId, newGame)
       /\ sent = IF waiting # <<>> THEN <<>>
                 ELSE <<[to |-> player1Id, event |-> "matchFound", data |-> player2Id],
                        [to |-> player2Id, event |-> "matchFound", data |-> player1Id],
                        [to |-> player1Id, event |-> "pvpGameUpdate",
                         data |-> getGameStateForPlayer(newGame, player1Id)],
                        [to |-> player2Id, event |-> "pvpGameUpdate",
                         data |-> getGameStateForPlayer(newGame, player2Id)]>>
       /\ dealt = 1
       /\ crashed = FALSE
       /\ hand = <<>>
       /\ total = -1

InitRound == \E seed \in 1..RoundSeeds : Matched(seed, TRUE, <<>>)

NextRound == \E id \in DOMAIN sockets, action \in Actions : playerAction(id, action)

SpecRound == InitRound /\ [][NextRound]_vars

\* --------------------------------- a round played to its end by its players

\* The matched pair with socket.rooms of either kind.
InitPlay ==
    \E seed \in 1..RoundSeeds, asObject \in BOOLEAN : Matched(seed, asObject, <<>>)

\* No socket disconnects or asks for another match: the two players only
\* send actions.
SpecPlay == InitPlay /\ [][NextRound]_vars

\* ------------------------------------- a round with players leaving it

\* The matched pair, alone or with a third socket waiting in the queue.
InitTable ==
    \E seed \in 1..RoundSeeds, waiting \in {<<>>, <<SocketId(3)>>} :
        Matched(seed, TRUE, waiting)

NextTable ==
    \/ \E id \in DOMAIN sockets : cancelMatchmaking(id)
    \/ \E id \in DOMAIN sockets : disconnect(id)
    \/ \E id \in DOMAIN sockets, action \in Actions : playerAction(id, action)

SpecTable == InitTable /\ [][NextTable]_vars

\* ------------------------------------------------- the lobby without play

\* The shuffle has no part in matchmaking: the lobby deals every game along
\* the first stream.
NextLobby ==
    \/ connection
    \/ \E id \in DOMAIN sockets : requestMatch(id, 1)
    \/ \E id \in DOMAIN sockets : cancelMatchmaking(id)
    \/ \E id \in DOMAIN sockets : disconnect(id)

SpecLobby == Init /\ [][NextLobby]_vars

\* ------------------------------------------- calculateHandTotal on its own

\* The k-th card of rank r a hand holds takes the k-th suit.
CardsOf(rs) ==
    [i \in 1..Len(rs) |->
        [rank |-> rs[i],
         suit |-> suits[Cardinality({k \in 1..i : rs[k] = rs[i]})]]]

\* Sequences of n ranks with no rank more often than there are suits.
RankSeqs(n) ==
    {rs \in [1..n -> Range(ranks)] :
        \A r \in Range(ranks) : Cardinality({k \in 1..n : rs[k] = r}) <= Len(suits)}

\* The two cards a hand starts with.
InitHand ==
    /\ opened = 0
    /\ sockets = <<>>
    /\ roomsAsObject = TRUE
    /\ matchmakingQueue = <<>>
    /\ activeGames = <<>>
    /\ sent = <<>>
    /\ dealt = 0
    /\ crashed = FALSE
    /\ hand \in {CardsOf(rs) : rs \in RankSeqs(2)}
    /\ total = -1

callCalculateHandTotal ==
    /\ total = -1
    /\ total' = calculateHandTotal(hand)
    /\ UNCHANGED <<server, hand>>

\* A hit: a hand scored 21 or less takes one more card, of any rank the hand
\* does not hold in every suit already.
drawCard ==
    /\ total # -1
    /\ total <= 21
    /\ Len(hand) < MaxHandLen
    /\ \E r \in Range(ranks) :
          LET held == Cardinality({k \in 1..Len(hand) : hand[k].rank = r})
          IN /\ held < Len(suits)
             /\ hand' = Append(hand, [rank |-> r, suit |-> suits[held + 1]])
    /\ total' = -1
    /\ UNCHANGED server

NextHand == callCalculateHandTotal \/ drawCard

SpecHand == InitHand /\ [][NextHand]_vars

\* ------------------------------------------------------------- properties

\* The room a playerAction of socket id is looked up to; <<>> for none.
RoomOf(id) == FindGameRoom(ObjectKeys(sockets[id]))

\* A player of game who is standing or busted.
Exhausted(game, playerId) ==
    game.byId[playerId].isStanding \/ game.byId[playerId].isBusted

\* The first entry of turnOrder after playerId, going round, that is the
\* dealer or a player neither standing nor busted.
NextInTurnOrder(game, playerId) ==
    LET n == Len(game.turnOrder)
        i == CHOOSE k \in 1..n : game.turnOrder[k] = playerId
        at(k) == game.turnOrder[((i - 1 + k) % n) + 1]
        open(k) == at(k) = "dealer" \/ ~Exhausted(game, at(k))
        k0 == CHOOSE k \in 1..n : open(k) /\ \A j \in 1..(k - 1) : ~open(j)
    IN at(k0)

\* C1. Turn order: a hit by the player whose turn it is that does not bust
\* leaves currentTurn on that player; a stand or a busting hit moves
\* currentTurn to the next entry of turnOrder that is not a standing or busted
\* player; and currentTurn is the dealer only when both players are standing
\* or busted.
TurnOrder ==
    [][\A id \in DOMAIN sockets : \A e \in Range(activeGames) :
         (/\ RoomOf(id) = <<e.roomId>>
          /\ e.game.currentTurn = id
          /\ HasGame(activeGames', e.roomId))
         => LET after == GetGame(activeGames', e.roomId)
            IN /\ (playerAction(id, "hit") /\ ~after.byId[id].isBusted)
                  => (after.currentTurn = id /\ after.currentTurn = e.game.currentTurn)
               /\ (\/ playerAction(id, "stand")
                   \/ (playerAction(id, "hit") /\ after.byId[id].isBusted))
                  => after.currentTurn = NextInTurnOrder(after, id)
               /\ after.currentTurn = "dealer"
                  => \A p \in Range(after.players) : Exhausted(after, p)]_vars

\* C1 witness: the first player busted on a hit, the turn moved to the second
\* player, who has hit without busting and still holds the turn.
TurnOrderWitness ==
    \E e \in Range(activeGames) :
        /\ e.game.byId[e.game.players[1]].isBusted
        /\ e.game.currentTurn = e.game.players[2]
        /\ Len(e.game.byId[e.game.players[2]].hand) > 2
        /\ ~e.game.byId[e.game.players[2]].isBusted

\* The pvpGameOver events with type win among msgs that went to socket id.
WinsSentTo(msgs, id) ==
    {i \in 1..Len(msgs) :
        msgs[i].to = id /\ msgs[i].event = "pvpGameOver" /\ msgs[i].data.type = "win"}

\* C2. Disconnect forfeiture: when a participant of a game in activeGames
\* disconnects, the other participant of that game is sent exactly one
\* pvpGameOver of type win and that game is removed from activeGames.
DisconnectForfeiture ==
    [][\A id \in DOMAIN sockets :
         disconnect(id) =>
            \A e \in Range(activeGames) :
               id \in Range(e.game.players) =>
                  /\ ~HasGame(activeGames', e.roomId)
                  /\ \A other \in Range(e.game.players) \ {id} :
                        Cardinality(WinsSentTo(sent', other)) = 1]_vars

\* The entries of activeGames that have socket id as a participant.
SessionsOf(id) ==
    {i \in 1..Len(activeGames) : id \in Range(activeGames[i].game.players)}

\* C3. While the server runs, each connection identity is a participant of at
\* most one game in activeGames, and each room identifier maps to exactly one
\* game.
OneSessionPerConnection ==
    ~crashed =>
    /\ \A n \in 1..opened : Cardinality(SessionsOf(SocketId(n))) <= 1
    /\ \A i, j \in 1..Len(activeGames) :
          activeGames[i].roomId = activeGames[j].roomId => i = j

\* C4. Right after disconnect(X) is handled, X is not in the matchmaking
\* queue and no game left in activeGames has X as a participant.
DisconnectRemovesIdentity ==
    [][\A id \in DOMAIN sockets :
         disconnect(id) =>
            /\ id \notin Range(matchmakingQueue')
            /\ \A e \in Range(activeGames') : id \notin Range(e.game.players)]_vars

\* The pvpGameUpdate events of msgs that carry a projected game (not the
\* "not your turn" error).
ViewsIn(msgs) ==
    {i \in 1..Len(msgs) :
        msgs[i].event = "pvpGameUpdate" /\ "dealerState" \in DOMAIN msgs[i].data}

\* The blackjack value of a card standing alone.
FaceValue(card) ==
    CASE card.rank = "A" -> 11
      [] card.rank \in {"J", "Q", "K"} -> 10
      [] OTHER -> parseInt(card.rank)

\* The game with the dealer's second card exchanged for the k-th card of the
\* undealt deck.
WithHoleCard(game, k) ==
    LET cards == <<game.dealer.hand[1], game.deck[k]>>
    IN [game EXCEPT !.deck[k] = game.dealer.hand[2],
                    !.dealer.hand = cards,
                    !.dealer.score = calculateHandTotal(cards)]

\* C5. Projection masking: every projected game sent while gameOver is false
\* shows the dealer hand as the first dealer card and the placeholder, and a
\* dealer score that is the value of the first card alone; the game with any
\* other hole card from the undealt deck projects to the same view.
ProjectionMasking ==
    \A i \in ViewsIn(sent) :
        ~sent[i].data.gameOver =>
            \E e \in Range(activeGames) :
                /\ sent[i].to \in Range(e.game.players)
                /\ sent[i].data = getGameStateForPlayer(e.game, sent[i].to)
                /\ sent[i].data.dealerState.hand = <<e.game.dealer.hand[1], placeholder>>
                /\ sent[i].data.dealerState.score = FaceValue(e.game.dealer.hand[1])
                /\ \A k \in 1..Len(e.game.deck) :
                      getGameStateForPlayer(WithHoleCard(e.game, k), sent[i].to)
                         = sent[i].data

\* C5 witness: a view sent in mid-round, after a hit, of a game whose dealer
\* holds a hole card worth something.
ProjectionMaskingWitness ==
    \E i \in ViewsIn(sent) :
        /\ ~sent[i].data.gameOver
        /\ Len(sent[i].data.playerState.hand) > 2
        /\ \E e \in Range(activeGames) :
              /\ sent[i].to \in Range(e.game.players)
              /\ Len(e.game.dealer.hand) = 2
              /\ e.game.dealer.score > sent[i].data.dealerState.score

\* The total of a hand with every ace valued 1.
RECURSIVE HardTotal(_)
HardTotal(cards) ==
    IF cards = <<>> THEN 0
    ELSE HardTotal(Front(cards))
         + (IF Last(cards).rank = "A" THEN 1 ELSE FaceValue(Last(cards)))

\* Standard blackjack scoring: the largest total not above 21 that valuing
\* each ace 1 or 11 can give, and the total with every ace 1 when none is.
StandardTotal(cards) ==
    LET aces == Cardinality({i \in 1..Len(cards) : cards[i].rank = "A"})
        fits == {HardTotal(cards) + 10 * k : k \in 0..aces} \cap 0..21
    IN IF fits = {} THEN HardTotal(cards)
       ELSE CHOOSE t \in fits : \A u \in fits : u <= t

\* C6. Hand scoring is standard blackjack scoring: calculateHandTotal returns
\* the largest total not above 21 obtainable by valuing each ace 1 or 11, and
\* the total with every ace valued 1 when there is none.
StandardScoring == total # -1 => total = StandardTotal(hand)

\* The results a round can give a player, with the words of the message.
Results == {"busted", "wins", "loses", "pushes"}

\* The two players' results as gameOverMessage words them, <<>> when the
\* message is not of that form.
ResultsIn(message) ==
    LET pairs == {rr \in Results \X Results :
                     message = "Round over! " \o OutcomeText(rr[1]) \o OutcomeText(rr[2])}
    IN IF pairs = {} THEN <<>> ELSE CHOOSE rr \in pairs : TRUE

\* The result the precedence of the claim gives a player against the dealer.
ResultIs(result, player, dealer) ==
    /\ result = "busted" <=> player.isBusted
    /\ result = "wins" <=>
          ~player.isBusted /\ (dealer.isBusted \/ player.score > dealer.score)
    /\ result = "loses" <=>
          ~player.isBusted /\ ~dealer.isBusted /\ player.score < dealer.score
    /\ result = "pushes" <=>
          ~player.isBusted /\ ~dealer.isBusted /\ player.score = dealer.score

\* C7. Outcome precedence: once the round is resolved each player's result is
\* decided on its own against the dealer: busted when the player is busted;
\* else wins when the dealer is busted or the player's total is higher; else
\* loses when it is lower; else push. A player at 20 with the other player
\* busted and the dealer at 18 wins, and the other player is busted.
OutcomePrecedence ==
    \A e \in Range(activeGames) :
        e.game.gameOver =>
            LET rr == ResultsIn(e.game.gameOverMessage)
                a == e.game.byId[e.game.players[1]]
                b == e.game.byId[e.game.players[2]]
                d == e.game.dealer
            IN /\ rr # <<>>
               /\ ResultIs(rr[1], a, d)
               /\ ResultIs(rr[2], b, d)
               /\ (a.score = 20 /\ ~a.isBusted /\ b.isBusted /\ d.score = 18)
                     => rr = <<"wins", "busted">>
               /\ (b.score = 20 /\ ~b.isBusted /\ a.isBusted /\ d.score = 18)
                     => rr = <<"busted", "wins">>

\* C7 witness: a resolved round with one player at 20, the other busted and
\* the dealer standing at 18.
OutcomePrecedenceWitness ==
    \E e \in Range(activeGames) :
        /\ e.game.gameOver
        /\ e.game.dealer.score = 18
        /\ \E p, q \in Range(e.game.players) :
              /\ e.game.byId[p].score = 20 /\ ~e.game.byId[p].isBusted
              /\ e.game.byId[q].isBusted

\* The deck as the dealer's turn finds it in a step from game before: a
\* busting hit has taken the top card first, a stand has taken none.
DeckAtDealerTurn(before, after) ==
    IF \E p \in Range(before.players) :
          Len(after.byId[p].hand) > Len(before.byId[p].hand)
    THEN Front(before.deck) ELSE before.deck

\* C8. Dealer policy: a player action changes the dealer's hand only in the
\* step that ends the round; there each card is drawn while the total of the
\* cards before it is below 17 (so never at 17 or more, never once busted),
\* the final total is at least 17, isBusted is true exactly when it exceeds
\* 21, and the drawn cards are the top cards of the deck as the dealer's turn
\* found it, so the final hand is fixed by the two initial cards and that
\* deck order.
DealerPolicy ==
    [][\A e \in Range(activeGames) :
         /\ \E id \in DOMAIN sockets : \E action \in Actions :
               playerAction(id, action)
         /\ HasGame(activeGames', e.roomId)
         =>
            LET before == e.game
                after == GetGame(activeGames', e.roomId)
                deck0 == DeckAtDealerTurn(before, after)
                drawn == Len(after.dealer.hand) - Len(before.dealer.hand)
            IN IF after.gameOver /\ ~before.gameOver
               THEN /\ drawn >= 0
                    /\ SubSeq(after.dealer.hand, 1, 2) = before.dealer.hand
                    /\ \A k \in 1..drawn :
                          /\ calculateHandTotal(SubSeq(after.dealer.hand, 1, k + 1)) < 17
                          /\ after.dealer.hand[k + 2] = deck0[Len(deck0) - k + 1]
                    /\ after.deck = SubSeq(deck0, 1, Len(deck0) - drawn)
                    /\ after.dealer.score = calculateHandTotal(after.dealer.hand)
                    /\ after.dealer.score >= 17
                    /\ after.dealer.isBusted <=> after.dealer.score > 21
               ELSE after.dealer = before.dealer]_vars

\* C8 witness: a resolved round whose dealer drew two cards or more and busted.
DealerPolicyWitness ==
    \E e \in Range(activeGames) :
        /\ e.game.gameOver
        /\ Len(e.game.dealer.hand) >= 4
        /\ e.game.dealer.isBusted

\* The cards of a game: the dealer's hand, the hands of players[0] and
\* players[1], and the undealt deck.
CardsOfGame(game) ==
    game.dealer.hand \o game.byId[game.players[1]].hand
        \o game.byId[game.players[2]].hand \o game.deck

\* C9. Deck integrity: in every game the matchmaker created, at creation and
\* after every hit and dealer draw, the dealer's hand, the two players' hands
\* and the deck hold each card of the 52-card deck exactly once.
DeckIntegrity ==
    \A e \in Range(activeGames) :
        /\ Len(CardsOfGame(e.game)) = Len(createDeck)
        /\ Range(CardsOfGame(e.game)) = Range(createDeck)

\* C10. Matchmaking FIFO: a requestMatch that brings the queue to two entries
\* or more removes exactly the two oldest and stores a new game for them, the
\* older one being players[0] and the first to act, and leaves every other
\* waiter queued in order; a requestMatch that does not leaves the games alone.
MatchmakingFIFO ==
    [][\A id \in DOMAIN sockets :
         requestMatch(id, 1) =>
            LET queue == Append(matchmakingQueue, id)
            IN IF Len(queue) >= 2
               THEN LET roomId == gameRoomId(queue[1], queue[2])
                    IN /\ matchmakingQueue' = SubSeq(queue, 3, Len(queue))
                       /\ HasGame(activeGames', roomId)
                       /\ GetGame(activeGames', roomId).players = <<queue[1], queue[2]>>
                       /\ GetGame(activeGames', roomId).currentTurn = queue[1]
                       /\ GetGame(activeGames', roomId).turnIndex = 0
                       /\ ~GetGame(activeGames', roomId).gameOver
                       /\ \A e \in Range(activeGames) :
                             e.roomId # roomId => e \in Range(activeGames')
                       /\ \A e \in Range(activeGames') :
                             e.roomId # roomId => e \in Range(activeGames)
               ELSE /\ matchmakingQueue' = queue
                    /\ activeGames' = activeGames]_vars

\* C10 witness: s1, s2 and s3 asked for a match in that order; s1 and s2 are
\* paired, s1 to act first, and s3 waits alone.
MatchmakingFIFOWitness ==
    /\ matchmakingQueue = <<SocketId(3)>>
    /\ Len(activeGames) = 1
    /\ activeGames[1].roomId = gameRoomId(SocketId(1), SocketId(2))
    /\ activeGames[1].game.players = <<SocketId(1), SocketId(2)>>
    /\ activeGames[1].game.currentTurn = SocketId(1)

\* A hit or stand of socket id would be refused in every session in the store
\* that id takes part in: id is not its current-turn player, or is standing
\* or busted there. It also holds when no session of id is left in the store.
RefusedEverywhere(id) ==
    \A e \in Range(activeGames) :
        id \in Range(e.game.players) =>
            \/ e.game.currentTurn # id
            \/ e.game.byId[id].isStanding
            \/ e.game.byId[id].isBusted

\* C11. Invalid actions change nothing: a playerAction with an unknown action
\* kind, or a hit or stand from a socket that is the current-turn player of no
\* session in the store, or is standing or busted there, or whose room has no
\* session left in the store, leaves activeGames (every hand, deck, score,
\* flag, turnIndex, currentTurn, gameOver) and matchmakingQueue as they were.
InvalidActionChangesNothing ==
    [][\A id \in DOMAIN sockets : \A action \in Actions :
         /\ playerAction(id, action)
         /\ action \notin {"hit", "stand"} \/ RefusedEverywhere(id)
         =>
         /\ activeGames' = activeGames
         /\ matchmakingQueue' = matchmakingQueue]_vars

\* C11 witness: the handler has just refused an out-of-turn action in a round
\* in progress in which a card was drawn, with a socket waiting in the queue.
InvalidActionChangesNothingWitness ==
    /\ \E m \in Range(sent) : m.event = "pvpGameUpdate" /\ "messageType" \in DOMAIN m.data
    /\ matchmakingQueue # <<>>
    /\ \E e \in Range(activeGames) :
          /\ ~e.game.gameOver
          /\ \E p \in Range(e.game.players) : Len(e.game.byId[p].hand) > 2

\* The pvpGameOver events of msgs that carry a finalGame (round resolution,
\* not the forfeit on disconnect).
FinalsIn(msgs) ==
    {i \in 1..Len(msgs) :
        msgs[i].event = "pvpGameOver" /\ "finalGame" \in DOMAIN msgs[i].data}

\* C12. Once the round is over, the finalGame carried by pvpGameOver is the
\* unmasked view of the game: the dealer's complete hand, hole card and drawn
\* cards included, and the dealer's true total.
FinalBroadcastUnmasked ==
    \A i \in FinalsIn(sent) :
        \E e \in Range(activeGames) :
            /\ e.game.gameOver
            /\ sent[i].to \in Range(e.game.players)
            /\ sent[i].data.finalGame.dealerState.hand = e.game.dealer.hand
            /\ sent[i].data.finalGame.dealerState.score = e.game.dealer.score

\* A game in which player s1 holds the cards of a hand but the last, which
\* is the top card of the deck, and it is s1's turn.
BeforeHit(cards) ==
    LET game == initializeGame(SocketId(1), SocketId(2), 1)
    IN [game EXCEPT !.deck = <<Last(cards)>>,
                    !.byId[SocketId(1)] = newPlayer(Front(cards))]

\* C13. No false bust: for a hand that some valuation of its aces keeps at 21
\* or less (so the one valuing every ace 1 does), calculateHandTotal returns
\* 21 or less, and the hit that completes such a hand records that total,
\* leaves isBusted false and leaves the turn with the player.
NoFalseBust ==
    (total # -1 /\ HardTotal(hand) <= 21) =>
        /\ total <= 21
        /\ Len(hand) >= 3 =>
              LET r == handleHit(BeforeHit(hand), SocketId(1))
              IN /\ ~r.threw
                 /\ r.game.byId[SocketId(1)].hand = hand
                 /\ r.game.byId[SocketId(1)].score = total
                 /\ ~r.game.byId[SocketId(1)].isBusted
                 /\ r.game.currentTurn = SocketId(1)
                 /\ ~r.game.gameOver

\* C13 witness: a hand of three cards or more whose running total went past
\* 21 with an ace counted 11, scored after the ace was taken down to 1.
NoFalseBustWitness ==
    /\ total # -1
    /\ Len(hand) >= 3
    /\ FoldHand(hand, Len(hand))[1] > 21
    /\ HardTotal(hand) <= 21
    /\ total = HardTotal(hand)

\* C14. RoundOver is terminal per room: a game newly put in activeGames has
\* gameOver false and its first player to move; and once the game stored
\* under a room identifier has gameOver true, no requestMatch, cancelMatchmaking
\* or playerAction changes what is stored under that identifier: it stays
\* over, with the same deal, until a disconnect removes it.
RoundOverTerminal ==
    [][/\ \A e \in Range(activeGames') :
            ~HasGame(activeGames, e.roomId) =>
                /\ ~e.game.gameOver
                /\ e.game.currentTurn = e.game.players[1]
       /\ \A e \in Range(activeGames) :
            (/\ e.game.gameOver
             /\ \E id \in DOMAIN sockets :
                   \/ \E seed \in 1..MaxSeed : requestMatch(id, seed)
                   \/ cancelMatchmaking(id)
                   \/ \E action \in Actions : playerAction(id, action))
            => /\ HasGame(activeGames', e.roomId)
               /\ GetGame(activeGames', e.roomId) = e.game]_vars

\* The pvpGameUpdate events among msgs that carry view and went to socket id.
ViewsSentTo(msgs, id, view) ==
    {i \in 1..Len(msgs) :
        msgs[i].to = id /\ msgs[i].event = "pvpGameUpdate" /\ msgs[i].data = view}

\* C15. Action routing: when socket id is the current-turn player of a game
\* in activeGames that is not over, a hit or stand sent by id is applied to
\* that game (a hit adds the top card of the deck to id's hand, a stand sets
\* isStanding) and both participants are then sent the projected view of the
\* updated game, whatever games id took part in earlier. Stated for socket
\* rooms that list their names as own keys, for a socket that takes part in
\* no other game of the store at that moment, and with both participants
\* connected.
ActionRouting ==
    [][\A id \in DOMAIN sockets : \A e \in Range(activeGames) :
         \A action \in {"hit", "stand"} :
            (/\ roomsAsObject
             /\ Cardinality(SessionsOf(id)) = 1
             /\ Range(e.game.players) \subseteq DOMAIN sockets
             /\ e.game.currentTurn = id
             /\ ~e.game.gameOver
             /\ playerAction(id, action))
            => /\ HasGame(activeGames', e.roomId)
               /\ LET after == GetGame(activeGames', e.roomId)
                  IN /\ action = "hit" =>
                           after.byId[id].hand
                              = Append(e.game.byId[id].hand, Last(e.game.deck))
                     /\ action = "stand" => after.byId[id].isStanding
                     /\ \A p \in Range(after.players) :
                           ViewsSentTo(sent', p, getGameStateForPlayer(after, p)) # {}]_vars

\* The result of a player of a resolved game against its dealer.
ResultOf(game, k) ==
    CHOOSE r \in Results : ResultIs(r, game.byId[game.players[k]], game.dealer)

\* Player id hitting for as long as it holds the turn, that is until busted.
RECURSIVE HitToBust(_, _)
HitToBust(game, id) ==
    IF game.currentTurn # id THEN game ELSE HitToBust(handleHit(game, id).game, id)

\* Player id playing its turn: hitting until busted, or standing at once.
PlayTurn(game, id, bust) ==
    IF bust THEN HitToBust(game, id) ELSE handleStand(game, id).game

\* The resolved rounds of reference: from each deck, each player either
\* stands at once or hits until busted.
ReferenceRounds ==
    {PlayTurn(PlayTurn(initializeGame(SocketId(1), SocketId(2), seed),
                       SocketId(1), bust[1]), SocketId(2), bust[2]) :
        seed \in 1..RoundSeeds, bust \in BOOLEAN \X BOOLEAN}

\* C16 as stated. gameOverType comes from the second player's result only:
\* a resolved game and any resolved round of reference in which the second
\* player's result is the same have the same gameOverType.
TypeFromSecondResultOnly ==
    \A e \in Range(activeGames) :
        e.game.gameOver =>
            \A ref \in ReferenceRounds :
                ResultOf(ref, 2) = ResultOf(e.game, 2)
                    => ref.gameOverType = e.game.gameOverType

\* C16 as amended. gameOverType is win or lose after the last of the two
\* comparisons that ended in wins or loses, and info when neither did: the
\* second player's result decides it when it is wins or loses, otherwise the
\* first player's result does.
TypeFromLastWinOrLoss ==
    \A e \in Range(activeGames) :
        e.game.gameOver =>
            LET first == ResultOf(e.game, 1)
                second == ResultOf(e.game, 2)
            IN e.game.gameOverType =
                  (IF second = "wins" THEN "win"
                   ELSE IF second = "loses" THEN "lose"
                   ELSE IF first = "wins" THEN "win"
                   ELSE IF first = "loses" THEN "lose"
                   ELSE "info")

\* C16 witness: a resolved round whose second player is busted and whose
\* type is that of the first player's win.
TypeFromLastWinOrLossWitness ==
    \E e \in Range(activeGames) :
        /\ e.game.gameOver
        /\ ResultOf(e.game, 2) = "busted"
        /\ ResultOf(e.game, 1) = "wins"
        /\ e.game.gameOverType = "win"

\* C17. Every game in activeGames has two distinct socket ids as its players
\* and a player state of its own for each, whatever requestMatch and
\* cancelMatchmaking events came, repeated requestMatch of one socket included.
DistinctParticipants ==
    \A e \in Range(activeGames) :
        /\ e.game.players[1] # e.game.players[2]
        /\ Cardinality(DOMAIN e.game.byId) = 2

\* What is left of a round: the cards of the deck and the players who can
\* still act. It is never negative.
Remaining(game) ==
    Len(game.deck) + Cardinality({p \in Range(game.players) : ~Exhausted(game, p)})

\* C18. Round termination: in the first game of two distinct participants,
\* with nobody disconnecting, every hit or stand sent by the player whose turn
\* it is either ends the round or leaves strictly less of it (a card fewer in
\* the deck, or a player fewer who can act), so the round is over after
\* finitely many such actions; and the dealer's turn is never observable: no
\* step leaves currentTurn = dealer with gameOver false.
RoundTerminates ==
    [][\A e \in Range(activeGames) :
         /\ HasGame(activeGames', e.roomId)
         /\ LET after == GetGame(activeGames', e.roomId)
            IN /\ after.currentTurn = "dealer" => after.gameOver
               /\ \A id \in DOMAIN sockets : \A action \in {"hit", "stand"} :
                     (/\ e.game.players[1] # e.game.players[2]
                      /\ e.game.currentTurn = id
                      /\ playerAction(id, action))
                     => \/ after.gameOver
                        \/ Remaining(after) < Remaining(e.game)]_vars

\* The pvpGameOver events among msgs that went to socket id.
GameOversSentTo(msgs, id) ==
    {i \in 1..Len(msgs) : msgs[i].to = id /\ msgs[i].event = "pvpGameOver"}

\* C19. Over the lifetime of a game each participant is sent at most one
\* pvpGameOver for it: no handler sends a participant more than one, and once
\* the game is over, its resolution having sent pvpGameOver to the room, no
\* later handler sends a participant another, the opponent's disconnect
\* included. Stated where the two sockets have this one game only.
AtMostOneGameOver ==
    [][\A e \in Range(activeGames) : \A p \in Range(e.game.players) :
         /\ Cardinality(GameOversSentTo(sent', p)) <= 1
         /\ e.game.gameOver => GameOversSentTo(sent', p) = {}]_vars

\* The cards held in the hands of a game, the dealer's included.
CardsInHands(game) ==
    LET ids == {game.players[k] : k \in 1..Len(game.players)}
        RECURSIVE Sum(_)
        Sum(S) == IF S = {} THEN 0
                  ELSE LET p == CHOOSE q \in S : TRUE
                       IN Len(game.byId[p].hand) + Sum(S \ {p})
    IN Sum(ids) + Len(game.dealer.hand)

\* C20. No deck exhaustion: in a game dealt from the 52-card deck, every card
\* a step adds to a hand (each accepted hit, each dealer draw) is a card the
\* deck held, so the deck was not empty when it was drawn; no hand ever holds
\* an undefined card and no handler throws on one.
NoDeckExhaustion ==
    [][\A e \in Range(activeGames) :
         HasGame(activeGames', e.roomId) =>
            LET after == GetGame(activeGames', e.roomId)
                drawn == CardsInHands(after) - CardsInHands(e.game)
            IN /\ drawn >= 0
               /\ drawn <= Len(e.game.deck)
               /\ after.deck = SubSeq(e.game.deck, 1, Len(e.game.deck) - drawn)
               /\ \A p \in Range(after.players) : ~HandThrows(after.byId[p].hand)
               /\ ~HandThrows(after.dealer.hand)
               /\ ~crashed']_vars

\* C20 witness: a resolved round in which both players hit and the dealer
\* drew, eight cards or more having left the deck after the deal.
NoDeckExhaustionWitness ==
    \E e \in Range(activeGames) :
        /\ e.game.gameOver
        /\ \A p \in Range(e.game.players) : Len(e.game.byId[p].hand) > 2
        /\ Len(e.game.dealer.hand) > 2
        /\ CardsInHands(e.game) >= 14
        /\ CardsInHands(e.game) + Len(e.game.deck) = Len(createDeck)
====
